---- MODULE Spec2Model ----
(***************************************************************************)
(* Model of os/src/syscall/mod.rs: the system-call entry point syscall(),  *)
(* the per-task statistics store TOTAL_TASKS and its accessor methods.     *)
(*                                                                         *)
(* Collaborators that live outside this file (UPSafeCell, TASK_MANAGER,    *)
(* get_time_ms, the sys_* handlers, the config constants) are modelled at  *)
(* their interface.                                                        *)
(***************************************************************************)
EXTENDS Integers, Sequences, FiniteSets, TLC

\* ---------------------------------------------------------------- constants
SYSCALL_WRITE == 64
SYSCALL_EXIT == 93
SYSCALL_YIELD == 124
SYSCALL_GET_TIME == 169
SYSCALL_TASK_INFO == 410

\* config::MAX_SYSCALL_NUM, the length of call_time
MAX_SYSCALL_NUM == 500
\* config::MAX_APP_NUM, the number of task slots, scaled down to bound the model
MAX_APP_NUM == 2

\* ------------------------------------------------------------------- bounds
\* number of dispatches explored
MaxDispatch == 2
\* largest value of the time source explored
MaxTime == 2

Recognized ==
    {SYSCALL_WRITE, SYSCALL_EXIT, SYSCALL_YIELD, SYSCALL_GET_TIME, SYSCALL_TASK_INFO}

\* identifiers handed to syscall(): the recognized ones, an unrecognized one
\* inside the counter array and an unrecognized one beyond it
Unrecognized == {7, 9999}
DispatchIds == Recognized \cup Unrecognized

\* the argument words handed to syscall(): stdout and a descriptor write rejects
ArgTuples == { <<1, 16, 2>>, <<3, 16, 2>> }

Slots == 0 .. (MAX_APP_NUM - 1)
\* what a call handed back: nothing (yet, or ever), or the isize v
NoRet == [returned |-> FALSE, v |-> 0]
Ret(v) == [returned |-> TRUE, v |-> v]

\* call_time has MAX_SYSCALL_NUM entries.  The model stores the entries that the
\* identifiers above can address; no explored operation touches another entry,
\* so every entry left out stays 0 throughout.
InBounds(i) == i \in 0 .. (MAX_SYSCALL_NUM - 1)
Index == { i \in DispatchIds : InBounds(i) }

\* identifiers whose counter is read back one at a time
CountIds == {SYSCALL_WRITE, SYSCALL_YIELD, 9999}

\* the entries a caller overwrites in an array the store returned to it
MutIndex == {SYSCALL_WRITE, SYSCALL_YIELD}

VARIABLES
    TOTAL_TASKS,   \* the store: one TaskStatBlock per slot
    guards,        \* UPSafeCell: number of outstanding exclusive guards
    outer,         \* a guard is held by a caller outside the accessors
    current,       \* TASK_MANAGER.get_current_task()
    exited,        \* slots whose task has exited
    now,           \* get_time_ms()
    pc,            \* position of the kernel
    fatal,         \* panic message class once pc = "panic"
    sid,           \* syscall_id of the dispatch in progress / last dispatch
    args,          \* args of that dispatch
    call,          \* handler invoked by that dispatch and its arguments
    hret,          \* value the handler returned
    ret,           \* value syscall() returned
    last,          \* accessor operation performed by the step into this state
    snapshot,      \* array returned by the last get_total_syscall_times()
    ndisp,         \* dispatches so far
    preCount,      \* counter of sid in the entry slot when syscall() was entered
    entrySlot,     \* slot that was current when syscall() was entered
    issued,        \* issued[t][i]: dispatches with identifier i entered while t current
    window         \* window[t]: whether t's timer was started, and the time since

vars == << TOTAL_TASKS, guards, outer, current, exited, now, pc, fatal, sid, args,
           call, hret, ret, last, snapshot, ndisp, preCount, entrySlot,
           issued, window >>

NoCall == [name |-> "none", a |-> << >>]
NoLast == [op |-> "none", arg |-> 0, val |-> 0, held |-> FALSE]
Op(name, arg, val) == [op |-> name, arg |-> arg, val |-> val, held |-> guards > 0]

\* ---------------------------------------------------------------------- u32
\* A u32 is stored as the two's-complement reading of its 32 bits: the value v
\* itself while v < 2^31, and v - 2^32 from there on, so that u32::MAX is -1
\* and u32::MAX - 1 is -2.  Counts that start at 0 are stored as themselves.
I32_MAX == 2147483647

\* x + 1 on the 32 bits, as a build without overflow checks computes it:
\* u32::MAX + 1 is 0
U32_wrapping_succ(x) == IF x = I32_MAX THEN (0 - I32_MAX) - 1 ELSE x + 1

\* x + 1 does not fit a u32
U32_succ_overflows(x) == x = 0 - 1

\* a - b on usize, read the same way: a negative result is the reading of the
\* wrapped difference
USIZE_wrapping_sub(a, b) == a - b

\* `w as i32`: the low 32 bits of the word, read as two's complement.  A word
\* is stored by the same reading, and the words the model can hold are those
\* between -2^31 and 2^31 - 1, whose low 32 bits read back as the word itself.
AsI32(w) == w

\* ------------------------------------------------------------ TaskStatBlock
\* TaskStatBlock { call_time: [0; MAX_SYSCALL_NUM], start_time: 0 }
TaskStatBlock == [call_time |-> [i \in Index |-> 0], start_time |-> 0]

\* what a caller holds after get_total_syscall_times: a value of its own
\* (aliased = FALSE) or, were a reference handed out, the live array of a slot
TaskStatBlock_get_total_syscall_times_ref(tasks, t) ==
    [have |-> TRUE, aliased |-> TRUE, slot |-> t, val |-> tasks[t].call_time]

TaskStatBlock_get_total_syscall_times(tasks, t) ==
    [have |-> TRUE, aliased |-> FALSE, slot |-> t, val |-> tasks[t].call_time]

TaskStatBlock_add_syscall_times_twice(blk, syscall_id) ==
    [blk EXCEPT !.call_time[syscall_id] = @ + 2]

\* self.call_time[syscall_id] += 1, where the addition returns
TaskStatBlock_add_syscall_times(blk, syscall_id) ==
    [blk EXCEPT !.call_time[syscall_id] = U32_wrapping_succ(@)]

\* a build with overflow checks panics in the addition instead
TaskStatBlock_add_syscall_times_may_panic(blk, syscall_id) ==
    U32_succ_overflows(blk.call_time[syscall_id])

TaskStatBlock_get_syscall_times(blk, syscall_id) == blk.call_time[syscall_id]

TaskStatBlock_start_task_time_accumulate(blk, t) ==
    [blk EXCEPT !.start_time = @ + t]

\* the deadline of the running tick stored instead of the time read
TaskStatBlock_start_task_time_ahead(blk, t) == [blk EXCEPT !.start_time = t + 1]

TaskStatBlock_start_task_time(blk, t) == [blk EXCEPT !.start_time = t]

TaskStatBlock_get_task_time_unset(blk) == 0

TaskStatBlock_get_task_time(blk) == blk.start_time

\* ---------------------------------------------------------------- UPSafeCell
\* exclusive_access(): succeeds only when no guard is outstanding
exclusive_access_unchecked(g) == TRUE

exclusive_access(g) == g = 0

\* the guard `tasks` goes out of scope at the end of each accessor
DropGuard_leak(g) == g

DropGuard(g) == g - 1

Fatal(msg) == pc' = "panic" /\ fatal' = msg

\* ---------------------------------------------------------------- TotalTasks
\* Each accessor: read the current slot, take the guard, act on tasks[current],
\* drop the guard.  `cont` is where the caller continues when it returns.
\* tasks[0] instead of tasks[current_task]
TotalTasks_add_syscall_times_slot0(syscall_id, cont) ==
    /\ last' = Op("add_syscall_times", syscall_id, 0)
    /\ UNCHANGED snapshot
    /\ IF ~exclusive_access(guards)
         THEN Fatal("already borrowed") /\ UNCHANGED << TOTAL_TASKS, guards >>
         ELSE IF ~InBounds(syscall_id)
           THEN /\ Fatal("index out of bounds")
                /\ guards' = guards + 1
                /\ UNCHANGED TOTAL_TASKS
           ELSE /\ TOTAL_TASKS' = [TOTAL_TASKS EXCEPT
                       ![0] = TaskStatBlock_add_syscall_times(@, syscall_id)]
                /\ guards' = DropGuard(guards + 1)
                /\ pc' = cont
                /\ UNCHANGED fatal

\* `let mut tasks = *self.inner.exclusive_access()`: TaskStatBlock is Copy, the
\* increment lands in a copy of the array
TotalTasks_add_syscall_times_on_copy(syscall_id, cont) ==
    /\ last' = Op("add_syscall_times", syscall_id, 0)
    /\ UNCHANGED << snapshot, TOTAL_TASKS >>
    /\ IF ~exclusive_access(guards)
         THEN Fatal("already borrowed") /\ UNCHANGED guards
         ELSE IF ~InBounds(syscall_id)
           THEN Fatal("index out of bounds") /\ guards' = guards + 1
           ELSE guards' = DropGuard(guards + 1) /\ pc' = cont /\ UNCHANGED fatal

\* the slot index taken one too far
TotalTasks_add_syscall_times_next_slot(syscall_id, cont) ==
    /\ last' = Op("add_syscall_times", syscall_id, 0)
    /\ UNCHANGED snapshot
    /\ IF ~exclusive_access(guards)
         THEN Fatal("already borrowed") /\ UNCHANGED << TOTAL_TASKS, guards >>
         ELSE IF ~InBounds(syscall_id)
           THEN /\ Fatal("index out of bounds")
                /\ guards' = guards + 1
                /\ UNCHANGED TOTAL_TASKS
           ELSE /\ TOTAL_TASKS' = [TOTAL_TASKS EXCEPT
                       ![(current + 1) % MAX_APP_NUM] =
                           TaskStatBlock_add_syscall_times(@, syscall_id)]
                /\ guards' = DropGuard(guards + 1)
                /\ pc' = cont
                /\ UNCHANGED fatal

TotalTasks_add_syscall_times(syscall_id, cont) ==
    /\ last' = Op("add_syscall_times", syscall_id, 0)
    /\ UNCHANGED snapshot
    /\ IF ~exclusive_access(guards)
         THEN Fatal("already borrowed") /\ UNCHANGED << TOTAL_TASKS, guards >>
         ELSE IF ~InBounds(syscall_id)
           THEN /\ Fatal("index out of bounds")
                /\ guards' = guards + 1
                /\ UNCHANGED TOTAL_TASKS
           ELSE \/ /\ TOTAL_TASKS' = [TOTAL_TASKS EXCEPT
                          ![current] = TaskStatBlock_add_syscall_times(@, syscall_id)]
                   /\ guards' = DropGuard(guards + 1)
                   /\ pc' = cont
                   /\ UNCHANGED fatal
                \/ /\ TaskStatBlock_add_syscall_times_may_panic(TOTAL_TASKS[current], syscall_id)
                   /\ Fatal("attempt to add with overflow")
                   /\ guards' = guards + 1
                   /\ UNCHANGED TOTAL_TASKS

TotalTasks_get_syscall_times(syscall_id, cont) ==
    /\ UNCHANGED << TOTAL_TASKS, snapshot >>
    /\ IF ~exclusive_access(guards)
         THEN /\ Fatal("already borrowed")
              /\ last' = Op("get_syscall_times", syscall_id, 0)
              /\ UNCHANGED guards
         ELSE IF ~InBounds(syscall_id)
           THEN /\ Fatal("index out of bounds")
                /\ last' = Op("get_syscall_times", syscall_id, 0)
                /\ guards' = guards + 1
           ELSE /\ last' = Op("get_syscall_times", syscall_id,
                              TaskStatBlock_get_syscall_times(TOTAL_TASKS[current], syscall_id))
                /\ guards' = DropGuard(guards + 1)
                /\ pc' = cont
                /\ UNCHANGED fatal

TotalTasks_get_total_syscall_times(cont) ==
    /\ last' = Op("get_total_syscall_times", 0, 0)
    /\ UNCHANGED TOTAL_TASKS
    /\ IF ~exclusive_access(guards)
         THEN Fatal("already borrowed") /\ UNCHANGED << guards, snapshot >>
         ELSE /\ snapshot' = TaskStatBlock_get_total_syscall_times(TOTAL_TASKS, current)
              /\ guards' = DropGuard(guards + 1)
              /\ pc' = cont
              /\ UNCHANGED fatal

TotalTasks_start_current_task_time(cont) ==
    /\ last' = Op("start_current_task_time", 0, 0)
    /\ UNCHANGED snapshot
    /\ IF ~exclusive_access(guards)
         THEN Fatal("already borrowed") /\ UNCHANGED << TOTAL_TASKS, guards >>
         ELSE /\ TOTAL_TASKS' = [TOTAL_TASKS EXCEPT
                     ![current] = TaskStatBlock_start_task_time(@, now)]
              /\ guards' = DropGuard(guards + 1)
              /\ pc' = cont
              /\ UNCHANGED fatal

\* a lap timer: reading the run time also restarts the window
TotalTasks_get_current_task_run_time_restarts(cont) ==
    /\ UNCHANGED snapshot
    /\ IF ~exclusive_access(guards)
         THEN /\ Fatal("already borrowed")
              /\ last' = Op("get_current_task_run_time", 0, 0)
              /\ UNCHANGED << TOTAL_TASKS, guards >>
         ELSE /\ last' = Op("get_current_task_run_time", 0,
                     USIZE_wrapping_sub(now, TaskStatBlock_get_task_time(TOTAL_TASKS[current])))
              /\ TOTAL_TASKS' = [TOTAL_TASKS EXCEPT
                     ![current] = TaskStatBlock_start_task_time(@, now)]
              /\ guards' = DropGuard(guards + 1)
              /\ pc' = cont
              /\ UNCHANGED fatal

\* the sentinel 0 treated as an error: `assert!(start_time != 0)`
TotalTasks_get_current_task_run_time_checked(cont) ==
    /\ UNCHANGED << TOTAL_TASKS, snapshot >>
    /\ last' = Op("get_current_task_run_time", 0,
           USIZE_wrapping_sub(now, TaskStatBlock_get_task_time(TOTAL_TASKS[current])))
    /\ IF ~exclusive_access(guards)
         THEN Fatal("already borrowed") /\ UNCHANGED guards
         ELSE IF TaskStatBlock_get_task_time(TOTAL_TASKS[current]) = 0
           THEN Fatal("timer not started") /\ guards' = guards + 1
           ELSE guards' = DropGuard(guards + 1) /\ pc' = cont /\ UNCHANGED fatal

TotalTasks_get_current_task_run_time(cont) ==
    /\ UNCHANGED << TOTAL_TASKS, snapshot >>
    /\ IF ~exclusive_access(guards)
         THEN /\ Fatal("already borrowed")
              /\ last' = Op("get_current_task_run_time", 0, 0)
              /\ UNCHANGED guards
         ELSE LET start == TaskStatBlock_get_task_time(TOTAL_TASKS[current]) IN
              \/ /\ last' = Op("get_current_task_run_time", 0, USIZE_wrapping_sub(now, start))
                 /\ guards' = DropGuard(guards + 1)
                 /\ pc' = cont
                 /\ UNCHANGED fatal
              \* a build with overflow checks panics when now < start_time
              \/ /\ now < start
                 /\ last' = Op("get_current_task_run_time", 0, 0)
                 /\ Fatal("attempt to subtract with overflow")
                 /\ guards' = guards + 1

\* ------------------------------------------------------------------- frames
kvars == << sid, args, call, hret, ret, ndisp, preCount, entrySlot, issued >>
tvars == << current, exited >>
cvars == << TOTAL_TASKS, guards, snapshot >>

\* --------------------------------------------------------------- dispatcher
\* pub fn syscall(syscall_id, args), up to the call on line 40
syscall_enter(syscall_id, a) ==
    /\ pc = "user"
    /\ ndisp < MaxDispatch
    /\ sid' = syscall_id
    /\ args' = a
    /\ call' = NoCall
    /\ hret' = NoRet
    /\ ret' = NoRet
    /\ ndisp' = ndisp + 1
    /\ entrySlot' = current
    /\ preCount' = IF InBounds(syscall_id)
                     THEN TOTAL_TASKS[current].call_time[syscall_id] ELSE 0
    /\ issued' = [issued EXCEPT ![current][syscall_id] = @ + 1]
    /\ TotalTasks_add_syscall_times(syscall_id, "match")
    /\ UNCHANGED << outer, tvars, now, window >>

\* the `_` arm of the match
syscall_default_returns == [panic |-> FALSE, ret |-> Ret(-1)]

syscall_default == [panic |-> TRUE, ret |-> NoRet]

\* the arm the match selects: the handler and the argument words it is given
\* sys_write given (args[0], args[2], args[1])
syscall_route_swapped(syscall_id, a) ==
    CASE syscall_id = SYSCALL_WRITE -> [name |-> "sys_write", a |-> << a[1], a[3], a[2] >>]
      [] syscall_id = SYSCALL_EXIT -> [name |-> "sys_exit", a |-> << AsI32(a[1]) >>]
      [] syscall_id = SYSCALL_YIELD -> [name |-> "sys_yield", a |-> << >>]
      [] syscall_id = SYSCALL_GET_TIME -> [name |-> "sys_get_time", a |-> << a[1], a[2] >>]
      [] syscall_id = SYSCALL_TASK_INFO -> [name |-> "sys_task_info", a |-> << a[1] >>]
      [] OTHER -> NoCall

syscall_route(syscall_id, a) ==
    CASE syscall_id = SYSCALL_WRITE -> [name |-> "sys_write", a |-> << a[1], a[2], a[3] >>]
      [] syscall_id = SYSCALL_EXIT -> [name |-> "sys_exit", a |-> << AsI32(a[1]) >>]
      [] syscall_id = SYSCALL_YIELD -> [name |-> "sys_yield", a |-> << >>]
      [] syscall_id = SYSCALL_GET_TIME -> [name |-> "sys_get_time", a |-> << a[1], a[2] >>]
      [] syscall_id = SYSCALL_TASK_INFO -> [name |-> "sys_task_info", a |-> << a[1] >>]
      [] OTHER -> NoCall

\* the value of the match expression is the value syscall() returns
syscall_return_clamped(v) == IF v < 0 THEN 0 ELSE v

syscall_return(v) == v

\* match syscall_id { ... }
syscall_match ==
    /\ pc = "match"
    /\ last' = NoLast
    /\ LET c == syscall_route(sid, args) IN
         IF c # NoCall
           THEN call' = c /\ pc' = "handler" /\ UNCHANGED << fatal, ret >>
           ELSE IF syscall_default.panic
             THEN Fatal("Unsupported syscall_id") /\ UNCHANGED << call, ret >>
             ELSE pc' = "user" /\ ret' = syscall_default.ret /\ UNCHANGED << call, fatal >>
    /\ UNCHANGED << cvars, outer, tvars, now, window,
                    sid, args, hret, ndisp, preCount, entrySlot, issued >>

\* ----------------------------------------------------------------- handlers
\* the dispatch is over: its arguments and the call it made are gone
Returned ==
    /\ args' = << 0, 0, 0 >>
    /\ call' = NoCall
    /\ preCount' = 0
    /\ entrySlot' = 0

\* fs::sys_write(fd, buf, len): bytes written, or a negative error
sys_write ==
    /\ pc = "handler" /\ call.name = "sys_write"
    /\ hret' = Ret(IF call.a[1] = 1 THEN call.a[3] ELSE -1)
    /\ ret' = Ret(syscall_return(hret'.v))
    /\ pc' = "user"
    /\ last' = NoLast
    /\ Returned
    /\ UNCHANGED << cvars, outer, tvars, now, window, fatal, sid, ndisp, issued >>

\* process::sys_exit(code): the task is gone, the task manager runs another
sys_exit ==
    /\ pc = "handler" /\ call.name = "sys_exit"
    /\ exited' = exited \cup {current}
    /\ IF Slots \ exited' = {}
         THEN pc' = "shutdown" /\ UNCHANGED current
         ELSE pc' = "user" /\ current' \in Slots \ exited'
    /\ last' = NoLast
    /\ Returned
    /\ UNCHANGED << cvars, outer, now, window, fatal, sid, hret, ret, ndisp, issued >>

\* process::sys_yield(): the task manager runs a ready task; result 0
sys_yield ==
    /\ pc = "handler" /\ call.name = "sys_yield"
    /\ current' \in Slots \ exited
    /\ hret' = Ret(0)
    /\ ret' = Ret(syscall_return(hret'.v))
    /\ pc' = "user"
    /\ last' = NoLast
    /\ Returned
    /\ UNCHANGED << cvars, outer, exited, now, window, fatal, sid, ndisp, issued >>

\* process::sys_get_time(ts, tz): result 0
sys_get_time ==
    /\ pc = "handler" /\ call.name = "sys_get_time"
    /\ hret' = Ret(0)
    /\ ret' = Ret(syscall_return(hret'.v))
    /\ pc' = "user"
    /\ last' = NoLast
    /\ Returned
    /\ UNCHANGED << cvars, outer, tvars, now, window, fatal, sid, ndisp, issued >>

\* process::sys_task_info(ti): reads the counters, then the run time; result 0
sys_task_info_counts ==
    /\ pc = "handler" /\ call.name = "sys_task_info"
    /\ TotalTasks_get_total_syscall_times("ti_time")
    /\ UNCHANGED << outer, tvars, now, window, kvars >>

sys_task_info_time ==
    /\ pc = "ti_time"
    /\ hret' = IF exclusive_access(guards) THEN Ret(0) ELSE NoRet
    /\ ret' = IF exclusive_access(guards) THEN Ret(syscall_return(hret'.v)) ELSE NoRet
    /\ TotalTasks_get_current_task_run_time("user")
    /\ IF exclusive_access(guards)
         THEN Returned ELSE UNCHANGED << args, call, preCount, entrySlot >>
    /\ UNCHANGED << outer, tvars, now, window, sid, ndisp, issued >>

\* ------------------------------------------- accessor calls made by the kernel
\* TOTAL_TASKS.start_current_task_time(), as the task manager calls it
start_timer ==
    /\ pc = "user"
    /\ TotalTasks_start_current_task_time("user")
    /\ window' = IF exclusive_access(guards)
                   THEN [window EXCEPT ![current] = [started |-> TRUE, d |-> 0]] ELSE window
    /\ UNCHANGED << outer, tvars, now, kvars >>

elapsed_ms ==
    /\ pc = "user"
    /\ TotalTasks_get_current_task_run_time("user")
    /\ UNCHANGED << outer, tvars, now, window, kvars >>

syscall_count(id) ==
    /\ pc = "user"
    /\ TotalTasks_get_syscall_times(id, "user")
    /\ UNCHANGED << outer, tvars, now, window, kvars >>

all_syscall_counts ==
    /\ pc = "user"
    /\ TotalTasks_get_total_syscall_times("user")
    /\ UNCHANGED << outer, tvars, now, window, kvars >>

\* the caller clears an entry of the array it was given
mutate_returned(i) ==
    /\ pc = "user"
    /\ snapshot.have
    /\ last' = [NoLast EXCEPT !.op = "mutate_returned", !.arg = i]
    /\ IF ~snapshot.aliased
         THEN /\ snapshot' = [snapshot EXCEPT !.val[i] = 0]
              /\ UNCHANGED TOTAL_TASKS
         ELSE /\ TOTAL_TASKS' = [TOTAL_TASKS EXCEPT ![snapshot.slot].call_time[i] = 0]
              /\ UNCHANGED snapshot
    /\ UNCHANGED << guards, outer, tvars, now, pc, fatal, window, kvars >>

\* timer::get_time_ms() advances
Tick ==
    /\ pc \in {"user", "ti_time"}
    /\ now < MaxTime
    /\ now' = now + 1
    /\ window' = [t \in Slots |-> IF window[t].started
                                   THEN [window[t] EXCEPT !.d = @ + 1] ELSE window[t]]
    /\ last' = NoLast
    /\ UNCHANGED << cvars, outer, tvars, pc, fatal, kvars >>

\* some kernel code takes TOTAL_TASKS.inner.exclusive_access() itself and keeps
\* the guard while it goes on
outer_acquire ==
    /\ pc \in {"user", "handler", "ti_time"}
    /\ last' = Op("exclusive_access", 0, 0)
    /\ IF exclusive_access(guards)
         THEN guards' = guards + 1 /\ outer' = TRUE /\ UNCHANGED << pc, fatal >>
         ELSE Fatal("already borrowed") /\ UNCHANGED << guards, outer >>
    /\ UNCHANGED << TOTAL_TASKS, snapshot, tvars, now, window, kvars >>

outer_release ==
    /\ pc \in {"user", "handler", "ti_time"}
    /\ outer
    /\ outer' = FALSE
    /\ guards' = DropGuard(guards)
    /\ last' = NoLast
    /\ UNCHANGED << TOTAL_TASKS, snapshot, tvars, now, pc, fatal, window, kvars >>

\* ------------------------------------------------------------ specification
Init ==
    /\ TOTAL_TASKS = [t \in Slots |-> TaskStatBlock]
    /\ guards = 0
    /\ outer = FALSE
    /\ current = 0
    /\ exited = {}
    /\ now = 0
    /\ pc = "user"
    /\ fatal = "none"
    /\ sid = 0
    /\ args = << 0, 0, 0 >>
    /\ call = NoCall
    /\ hret = NoRet
    /\ ret = NoRet
    /\ last = NoLast
    /\ snapshot = [have |-> FALSE, aliased |-> FALSE, slot |-> 0, val |-> [i \in Index |-> 0]]
    /\ ndisp = 0
    /\ preCount = 0
    /\ entrySlot = 0
    /\ issued = [t \in Slots |-> [i \in DispatchIds |-> 0]]
    /\ window = [t \in Slots |-> [started |-> FALSE, d |-> 0]]

Next ==
    \/ \E id \in DispatchIds, a \in ArgTuples : syscall_enter(id, a)
    \/ syscall_match
    \/ sys_write
    \/ sys_exit
    \/ sys_yield
    \/ sys_get_time
    \/ sys_task_info_counts
    \/ sys_task_info_time
    \/ start_timer
    \/ elapsed_ms
    \/ \E id \in CountIds : syscall_count(id)
    \/ all_syscall_counts
    \/ \E i \in MutIndex : mutate_returned(i)
    \/ Tick

Spec == Init /\ [][Next]_vars

\* the kernel after slot 0 has yielded 2^32 - 2 times: its yield counter stands
\* at u32::MAX - 1
InitWrap ==
    /\ TOTAL_TASKS = [t \in Slots |->
           IF t = 0 THEN [TaskStatBlock EXCEPT !.call_time[SYSCALL_YIELD] = 0 - 2]
           ELSE TaskStatBlock]
    /\ guards = 0
    /\ outer = FALSE
    /\ current = 0
    /\ exited = {}
    /\ now = 0
    /\ pc = "user"
    /\ fatal = "none"
    /\ sid = 0
    /\ args = << 0, 0, 0 >>
    /\ call = NoCall
    /\ hret = NoRet
    /\ ret = NoRet
    /\ last = NoLast
    /\ snapshot = [have |-> FALSE, aliased |-> FALSE, slot |-> 0, val |-> [i \in Index |-> 0]]
    /\ ndisp = 0
    /\ preCount = 0
    /\ entrySlot = 0
    /\ issued = [t \in Slots |-> [i \in DispatchIds |-> 0]]
    /\ window = [t \in Slots |-> [started |-> FALSE, d |-> 0]]

SpecWrap == InitWrap /\ [][Next]_vars

\* the same kernel with code that holds the guard across other calls
NextReentrant == Next \/ outer_acquire \/ outer_release

SpecReentrant == Init /\ [][NextReentrant]_vars

\* ------------------------------------------------------------------- claims
\* the array the caller of get_total_syscall_times sees when it reads what it holds
SnapshotView ==
    IF snapshot.aliased THEN TOTAL_TASKS[snapshot.slot].call_time
    ELSE snapshot.val

InDispatch(p) == p \in {"match", "handler", "ti_time"}

\* C1: for every slot t and recognized identifier i, the counter read for t
\* equals the number of dispatches with identifier i entered while t was
\* current, and a counter changes only in the step that enters a dispatch,
\* and then only call_time[syscall_id] of the current slot.
C1_CountEqualsDispatches ==
    [][ /\ \A t \in Slots, i \in Recognized :
             TaskStatBlock_get_syscall_times(TOTAL_TASKS'[t], i) = issued'[t][i]
        /\ \A t \in Slots, j \in Index :
             TOTAL_TASKS'[t].call_time[j] # TOTAL_TASKS[t].call_time[j]
               => (ndisp' = ndisp + 1 /\ j = sid' /\ t = current) ]_vars

C1_Witness ==
    /\ TOTAL_TASKS[0].call_time[SYSCALL_WRITE] = 2
    /\ issued[0][SYSCALL_WRITE] = 2
    /\ pc = "user"

\* C2: when the match and the handler run, the counter of the dispatched
\* identifier stands exactly 1 above its value at entry, and no step of the
\* dispatch after the entry (match, handler returning a success or a negative
\* code, exit not returning) changes the store again.
C2_RecordedOnceBeforeHandler ==
    [][ /\ (InDispatch(pc') /\ InBounds(sid'))
             => TOTAL_TASKS'[entrySlot'].call_time[sid'] = preCount' + 1
        /\ InDispatch(pc) => TOTAL_TASKS' = TOTAL_TASKS ]_vars

C2_Witness ==
    /\ pc = "handler"
    /\ call.name = "sys_write"
    /\ preCount = 1
    /\ TOTAL_TASKS[entrySlot].call_time[SYSCALL_WRITE] = 2

\* C3: a dispatch of an identifier outside the recognized set never invokes a
\* handler and never returns a result code; from the match it goes to the
\* panic state.
C3_UnrecognizedIsFatal ==
    [][ /\ (ndisp' > 0 /\ sid' \notin Recognized)
             => /\ pc' \in {"match", "panic"}
                /\ call' = NoCall
                /\ ~ret'.returned
                /\ ~hret'.returned
        /\ (pc = "match" /\ sid \notin Recognized /\ pc' # pc) => pc' = "panic" ]_vars

C3_Witness ==
    /\ pc = "panic"
    /\ sid = 7
    /\ fatal = "Unsupported syscall_id"
    /\ TOTAL_TASKS[0].call_time[7] = 1

\* C4: no step changes the TaskStatBlock of a slot other than the current one.
C4_OtherSlotsUnchanged ==
    [][ \A t \in Slots : t # current => TOTAL_TASKS'[t] = TOTAL_TASKS[t] ]_vars

C4_Witness ==
    /\ TOTAL_TASKS[0].call_time[SYSCALL_YIELD] = 1
    /\ TOTAL_TASKS[1].call_time[SYSCALL_YIELD] = 1
    /\ TOTAL_TASKS[0].start_time # TOTAL_TASKS[1].start_time

\* C5: an acquisition attempted while a guard is outstanding ends in the panic
\* state in that same step, and at most one guard is ever outstanding.
C5_SecondAcquirePanics ==
    /\ guards \in {0, 1}
    /\ (last.op # "none" /\ last.held) => (pc = "panic" /\ fatal = "already borrowed")

C5_Witness ==
    /\ pc = "panic"
    /\ fatal = "already borrowed"
    /\ last.op = "add_syscall_times"
    /\ last.held
    /\ guards = 1

\* C6: the array get_total_syscall_times returns equals the live counters at the
\* call; a write into it changes nothing in the store; a later dispatch does
\* not change what the caller holds.
C6_SnapshotIsCopy ==
    [][ /\ (last'.op = "get_total_syscall_times" /\ pc' # "panic")
             => SnapshotView' = TOTAL_TASKS'[current'].call_time
        /\ last'.op = "mutate_returned" => TOTAL_TASKS' = TOTAL_TASKS
        /\ ndisp' # ndisp => SnapshotView' = SnapshotView ]_vars

C6_Witness ==
    /\ last.op = "mutate_returned"
    /\ snapshot.have
    /\ snapshot.val[SYSCALL_WRITE] = 0
    /\ snapshot.val[SYSCALL_YIELD] = 1
    /\ TOTAL_TASKS[current].call_time[SYSCALL_WRITE] = 1
    /\ TOTAL_TASKS[current].call_time[SYSCALL_YIELD] = 1

\* C7: get_current_task_run_time returns exactly the time that has passed since
\* the current slot's last start_task_time, a value >= 0.
C7_ElapsedIsDelta ==
    (last.op = "get_current_task_run_time" /\ pc # "panic" /\ window[current].started)
      => (last.val = window[current].d /\ last.val >= 0)

C7_Witness ==
    /\ last.op = "get_current_task_run_time"
    /\ pc = "user"
    /\ TOTAL_TASKS[current].start_time = 1
    /\ window[current] = [started |-> TRUE, d |-> 1]
    /\ last.val = 1

\* C8: the step in which a handler returns makes syscall() return the very
\* value the handler returned, negative codes included, and leaves the kernel
\* running.
C8_ResultForwarded ==
    [][ (hret'.returned /\ ~hret.returned) => (ret' = hret' /\ pc' = "user") ]_vars

C8_Witness ==
    /\ sid = SYSCALL_WRITE
    /\ hret = Ret(-1)
    /\ ret = Ret(-1)
    /\ pc = "user"

\* C9: every identifier syscall() passes to add_syscall_times is a recognized
\* identifier inside the counter array.
C9_RecordOnlyRecognized ==
    last.op = "add_syscall_times" => (last.arg \in Recognized /\ InBounds(last.arg))

\* C10: outside the panic state no guard is outstanding between operations, in
\* particular while a handler runs, and the kernel never dies of a second
\* acquisition.
C10_GuardReleased ==
    /\ pc # "panic" => guards = 0
    /\ fatal # "already borrowed"

C10_Witness ==
    /\ pc = "user"
    /\ sid = SYSCALL_TASK_INFO
    /\ ret = Ret(0)
    /\ last.op = "get_current_task_run_time"
    /\ snapshot.have
    /\ guards = 0

\* C11: every step leaves every counter of every slot unchanged or one higher
\* as a u32 (the step from u32::MAX to 0 is not one higher).
C11_CountersMonotone ==
    [][ \A t \in Slots, j \in Index :
          LET old == TOTAL_TASKS[t].call_time[j]
              new == TOTAL_TASKS'[t].call_time[j]
          IN  \/ new = old
              \/ (old # 0 - 1 /\ old # I32_MAX /\ new = old + 1)
              \/ (old = I32_MAX /\ new = (0 - I32_MAX) - 1) ]_vars

\* C12: a start_current_task_time that returns leaves start_time of the current
\* slot equal to the time source, whatever it was, and changes no counter and
\* no start_time of another slot.
C12_StartTimerOverwrites ==
    [][ (last'.op = "start_current_task_time" /\ pc' # "panic")
          => /\ TOTAL_TASKS'[current].start_time = now
             /\ \A t \in Slots : TOTAL_TASKS'[t].call_time = TOTAL_TASKS[t].call_time
             /\ \A t \in Slots \ {current} :
                  TOTAL_TASKS'[t].start_time = TOTAL_TASKS[t].start_time ]_vars

C12_Witness ==
    /\ last.op = "start_current_task_time"
    /\ current = 1
    /\ now = 2
    /\ TOTAL_TASKS[1].start_time = 2
    /\ TOTAL_TASKS[0].start_time = 1
    /\ TOTAL_TASKS[0].call_time[SYSCALL_YIELD] = 1

\* C13: get_syscall_times, get_total_syscall_times and get_current_task_run_time
\* leave the whole store as it was, and get_syscall_times returns
\* call_time[id] of the slot current at the call.
C13_QueriesHaveNoSideEffects ==
    [][ /\ last'.op \in {"get_syscall_times", "get_total_syscall_times",
                         "get_current_task_run_time"}
             => TOTAL_TASKS' = TOTAL_TASKS
        /\ (last'.op = "get_syscall_times" /\ pc' # "panic")
             => last'.val = TOTAL_TASKS[current].call_time[last'.arg] ]_vars

C13_Witness ==
    /\ last.op = "get_syscall_times"
    /\ last.arg = SYSCALL_YIELD
    /\ last.val = 1
    /\ current = 1
    /\ TOTAL_TASKS[1].call_time[SYSCALL_YIELD] = 1
    /\ TOTAL_TASKS[0].call_time[SYSCALL_YIELD] = 0
    /\ TOTAL_TASKS[0].call_time[SYSCALL_EXIT] = 1

\* C14: the handler a dispatch invokes, and the words it is given, are those of
\* the ABI table for its identifier; task switches, exits and reads of the
\* counter array inside a dispatch happen only under the identifier whose
\* handler does them.
C14_RoutesPerTable ==
    [][ /\ call' # NoCall
             => /\ InDispatch(pc')
                /\ sid' \in Recognized
                /\ sid' = SYSCALL_WRITE
                     => call' = [name |-> "sys_write", a |-> << args'[1], args'[2], args'[3] >>]
                /\ sid' = SYSCALL_EXIT
                     => call' = [name |-> "sys_exit", a |-> << args'[1] >>]
                /\ sid' = SYSCALL_YIELD
                     => call' = [name |-> "sys_yield", a |-> << >>]
                /\ sid' = SYSCALL_GET_TIME
                     => call' = [name |-> "sys_get_time", a |-> << args'[1], args'[2] >>]
                /\ sid' = SYSCALL_TASK_INFO
                     => call' = [name |-> "sys_task_info", a |-> << args'[1] >>]
        /\ exited' # exited => (call.name = "sys_exit" /\ sid = SYSCALL_EXIT)
        /\ current' # current => sid \in {SYSCALL_EXIT, SYSCALL_YIELD}
        /\ (InDispatch(pc) /\ snapshot' # snapshot) => sid = SYSCALL_TASK_INFO ]_vars

C14_Witness ==
    /\ pc = "handler"
    /\ sid = SYSCALL_WRITE
    /\ args = << 3, 16, 2 >>
    /\ call = [name |-> "sys_write", a |-> << 3, 16, 2 >>]

\* C15: on a slot whose timer was never started start_time is still 0, and
\* get_current_task_run_time returns the time source's value without a panic.
C15_UnstartedReturnsNow ==
    /\ \A t \in Slots : ~window[t].started => TOTAL_TASKS[t].start_time = 0
    /\ (last.op = "get_current_task_run_time" /\ ~last.held /\ ~window[current].started)
         => (pc # "panic" /\ last.val = now)

C15_Witness ==
    /\ last.op = "get_current_task_run_time"
    /\ pc = "user"
    /\ current = 1
    /\ ~window[1].started
    /\ window[0].started
    /\ now = 2
    /\ last.val = 2

\* C16: the entry of a dispatch raises the counter of the slot current at the
\* entry, and the step in which yield or exit switches to another slot
\* changes no counter: the dispatch stays charged to the calling slot alone.
C16_ChargedToCallingSlot ==
    [][ /\ (ndisp' = ndisp + 1 /\ pc' # "panic")
             => /\ entrySlot' = current
                /\ TOTAL_TASKS'[current].call_time[sid']
                     = TOTAL_TASKS[current].call_time[sid'] + 1
                /\ \A t \in Slots \ {current} : TOTAL_TASKS'[t] = TOTAL_TASKS[t]
        /\ (pc = "handler" /\ current' # current)
             => /\ call.name \in {"sys_yield", "sys_exit"}
                /\ TOTAL_TASKS' = TOTAL_TASKS
                /\ TOTAL_TASKS'[entrySlot].call_time[sid] = preCount + 1
                /\ entrySlot = current ]_vars

C16_Witness ==
    /\ pc = "user"
    /\ sid = SYSCALL_YIELD
    /\ ret = Ret(0)
    /\ current = 1
    /\ ndisp = 1
    /\ TOTAL_TASKS[0].call_time[SYSCALL_YIELD] = 1
    /\ TOTAL_TASKS[1].call_time[SYSCALL_YIELD] = 0

\* C17: start_time of every slot is at most the time source's value, and the
\* difference get_current_task_run_time returns is never below 0.
C17_NoUnderflow ==
    /\ \A t \in Slots : TOTAL_TASKS[t].start_time <= now
    /\ fatal # "attempt to subtract with overflow"
    /\ (last.op = "get_current_task_run_time" /\ pc # "panic") => last.val >= 0

C17_Witness ==
    /\ last.op = "get_current_task_run_time"
    /\ pc = "user"
    /\ current = 1
    /\ now = 2
    /\ TOTAL_TASKS[0].start_time = 1
    /\ TOTAL_TASKS[1].start_time = 2
    /\ last.val = 0

====
